---- MODULE Spec2Model ----
(***************************************************************************)
(* Generation pipeline of genbackend: prompt -> parsePrompt (Translator)   *)
(* -> generateBackend (Assembler) -> current model, and the projection of  *)
(* a model into an OpenAPI document (generateOpenAPISpec).                  *)
(*                                                                         *)
(* JavaScript strings on which the code does character work (trim,         *)
(* startsWith, substring, toLowerCase) are sequences of one-character      *)
(* strings.  A JavaScript value that may be undefined, null or of another  *)
(* type is a record [t |-> <type tag>, s |-> <characters>].                *)
(***************************************************************************)
EXTENDS Integers, Sequences, FiniteSets, TLC

\* ------------------------------------------------------------------------
\* Bounds of the model
\* ------------------------------------------------------------------------
MaxWorkflows == 1
MaxRefs == 2
MaxEndpoints == 2
MaxParams == 2
MaxResponses == 2
MaxRenders == 2
MaxReads == 1
MaxRestarts == 1

\* ------------------------------------------------------------------------
\* JavaScript values and strings
\* ------------------------------------------------------------------------
Undef == [t |-> "undefined", s |-> <<>>]
Null == [t |-> "null", s |-> <<>>]
\* a number, written by its digits
Num(digits) == [t |-> "number", s |-> digits]
Str(cs) == [t |-> "string", s |-> cs]
Obj == [t |-> "object", s |-> <<>>]
Arr == [t |-> "array", s |-> <<>>]
\* an object whose own toString property is not callable: `${v}` throws
ObjNoPrim == [t |-> "object", s |-> <<"toString">>]

\* JavaScript truthiness of the values above (the operand of `!x`)
Truthy(v) ==
  CASE v.t = "undefined" -> FALSE
    [] v.t = "null" -> FALSE
    [] v.t = "string" -> Len(v.s) > 0
    [] v.t = "number" -> v.s # <<"0">>
    [] OTHER -> TRUE

\* Array.isArray
IsArray(v) == v.t = "array"

SeqsUpTo(S, n) == UNION {[1..k -> S] : k \in 0..n}

IsWhite(c) == c \in {" ", "\t", "\n"}

RECURSIVE TrimStart(_)
TrimStart(cs) ==
  IF cs # <<>> /\ IsWhite(Head(cs)) THEN TrimStart(Tail(cs)) ELSE cs

RECURSIVE TrimEnd(_)
TrimEnd(cs) ==
  IF cs # <<>> /\ IsWhite(cs[Len(cs)])
    THEN TrimEnd(SubSeq(cs, 1, Len(cs) - 1))
    ELSE cs

\* String.prototype.trim
Trim(cs) == TrimEnd(TrimStart(cs))

\* String.prototype.startsWith
StartsWith(cs, prefix) ==
  /\ Len(cs) >= Len(prefix)
  /\ SubSeq(cs, 1, Len(prefix)) = prefix

\* String.prototype.substring(n) for 0 <= n
Substring(cs, n) == IF n >= Len(cs) THEN <<>> ELSE SubSeq(cs, n + 1, Len(cs))

UpperChars == <<"A", "C", "D", "E", "G", "H", "L", "O", "P", "S", "T", "U">>
LowerChars == <<"a", "c", "d", "e", "g", "h", "l", "o", "p", "s", "t", "u">>

\* String.prototype.toLowerCase
ToLowerCase(cs) ==
  [i \in 1..Len(cs) |->
     IF \E k \in 1..Len(UpperChars) : UpperChars[k] = cs[i]
       THEN LowerChars[CHOOSE k \in 1..Len(UpperChars) : UpperChars[k] = cs[i]]
       ELSE cs[i]]

\* ------------------------------------------------------------------------
\* Translator: parsePrompt (src/generator/promptParser.ts)
\* ------------------------------------------------------------------------
ErrEmptyPrompt == "Empty prompt provided"
ErrNoKey == "OpenAI API key is required"
ErrNoContent == "No content in OpenAI response"
ErrInvalidShape == "Invalid data format in OpenAI response"
ErrNotJson == "Failed to parse OpenAI response as JSON"
ErrUnknown == "Unknown error"
ErrTrimNotFunction == "prompt.trim is not a function"
ErrReadContent == "Cannot read properties of undefined (reading 'content')"

\* the decoded value carried by a failure (GenerationResult.data is absent)
NoData ==
  [jt |-> "none", name |-> Undef, description |-> "", version |-> Undef,
   nodes |-> Undef,
   nodeItems |-> <<>>, workflows |-> Undef, wfItems |-> <<>>,
   endpoints |-> [present |-> FALSE, items |-> <<>>]]

\* a GenerationResult as the value of a settled promise; "rejected" is a
\* fault that escaped the function instead of a result
Failure(msg) ==
  [settled |-> "fulfilled", success |-> FALSE, error |-> msg, data |-> NoData]
Success(d) ==
  [settled |-> "fulfilled", success |-> TRUE, error |-> "", data |-> d]
Rejected(msg) ==
  [settled |-> "rejected", success |-> FALSE, error |-> msg, data |-> NoData]
Pending ==
  [settled |-> "pending", success |-> FALSE, error |-> "", data |-> NoData]

\* how a block of code completes: it returns a result, throws a value
\* (an Error with a message, or something that is no Error), or reaches the
\* outbound call
Returns(res) ==
  [step |-> "return", result |-> res, isError |-> FALSE, message |-> ""]
Throws(isErr, msg) ==
  [step |-> "throw", result |-> Pending, isError |-> isErr, message |-> msg]
CallsService ==
  [step |-> "call", result |-> Pending, isError |-> FALSE, message |-> ""]

\* lines 13-31: the input checks that run before the outbound call
InputChecksMutNoKeyCheck(prompt, key) ==
  IF ~Truthy(prompt) THEN Returns(Failure(ErrEmptyPrompt))
  ELSE IF prompt.t # "string" THEN Throws(TRUE, ErrTrimNotFunction)
  ELSE IF Len(Trim(prompt.s)) = 0 THEN Returns(Failure(ErrEmptyPrompt))
  ELSE CallsService

InputChecks(prompt, key) ==
  IF ~Truthy(prompt) THEN Returns(Failure(ErrEmptyPrompt))
  \* prompt.trim() on a value that is no string throws a TypeError
  ELSE IF prompt.t # "string" THEN Throws(TRUE, ErrTrimNotFunction)
  ELSE IF Len(Trim(prompt.s)) = 0 THEN Returns(Failure(ErrEmptyPrompt))
  ELSE IF ~Truthy(key) THEN Returns(Failure(ErrNoKey))
  ELSE CallsService

\* lines 137-143: the catch of the outer try
CatchMutRethrow(c) ==
  IF c.step = "throw" THEN Returns(Rejected(c.message)) ELSE c

Catch(c) ==
  IF c.step = "throw"
    THEN Returns(Failure(IF c.isError THEN c.message ELSE ErrUnknown))
    ELSE c

\* parsePrompt up to its await
parsePromptStart(prompt, key) == Catch(InputChecks(prompt, key))

\* JSON.parse(content): throws a SyntaxError for text that is not JSON
JSONparse(content) ==
  IF content.ck = "json" THEN Returns(Success(content.value))
  ELSE Throws(TRUE, "Unexpected token in JSON")

\* lines 113-129 on the decoded value: the shape test and the log lines.
\* Reading a property of null, and `${name}` of an object that has no
\* primitive form, throw a TypeError
CheckShape(d) ==
  IF d.jt = "null"
    THEN Throws(TRUE, "Cannot read properties of null (reading 'name')")
  ELSE IF ~Truthy(d.name) \/ ~Truthy(d.workflows) \/ ~IsArray(d.workflows)
    THEN Returns(Failure(ErrInvalidShape))
  ELSE IF d.name = ObjNoPrim
    THEN Throws(TRUE, "Cannot convert object to primitive value")
  ELSE Returns(Success(d))

\* lines 108-136: the decode inside the inner try/catch, whose catch turns
\* whatever was thrown into the parse failure
ParseResponseMutNoInnerCatch(content) ==
  LET p == JSONparse(content) IN
  IF p.step = "throw" THEN p ELSE CheckShape(p.result.data)

ParseResponse(content) ==
  LET p == JSONparse(content)
      c == IF p.step = "throw" THEN p ELSE CheckShape(p.result.data)
  IN IF c.step = "throw" THEN Returns(Failure(ErrNotJson)) ELSE c

\* lines 82-136: what follows the await.  outcome.k: "rejectError" (the
\* client rejects with an Error carrying outcome.msg), "rejectOther" (it
\* rejects with a value that is no Error), "noChoices" (choices is empty),
\* "noMessage" (choices[0].message is undefined) and "content"
\* (choices[0].message.content is outcome.content)
AfterCall(outcome) ==
  CASE outcome.k = "rejectError" -> Throws(TRUE, outcome.msg)
    [] outcome.k = "rejectOther" -> Throws(FALSE, "")
    [] outcome.k = "noChoices" -> Returns(Failure(ErrNoContent))
    [] outcome.k = "noMessage" -> Throws(TRUE, ErrReadContent)
    [] OTHER ->
         IF outcome.content.ck \in {"null", "empty"}
           THEN Returns(Failure(ErrNoContent))
           ELSE ParseResponse(outcome.content)

\* parsePrompt from its await on: the GenerationResult it resolves to
parsePromptResume(outcome) == Catch(AfterCall(outcome)).result

\* lines 99-143: calls of the service issued after the first one settled
FurtherCallsMutRetry(res) == IF res.success THEN 0 ELSE 1

FurtherCalls(res) == 0

\* ------------------------------------------------------------------------
\* Data of a generated backend (src/types/index.ts)
\* ------------------------------------------------------------------------
NodeNames == {"a", "b"}
SvcName == <<"s", "v", "c">>

\* GeneratedNode, as far as the pipeline reads it
Node(n) == [name |-> n, type |-> "validator"]

Absent == [present |-> FALSE, items |-> <<>>]
Items(xs) == [present |-> TRUE, items |-> xs]

\* GeneratedEndpoint: parameters and responses are optional
Endpoint(p, m, d, ps, rs) ==
  [path |-> p, method |-> m, description |-> d, parameters |-> ps,
   responses |-> rs]

\* EndpointParameter
Param(n, loc, req, d) ==
  [name |-> n, in |-> loc, required |-> req, type |-> "string",
   description |-> d]

\* EndpointResponse: schema is optional
Resp(st, d, sch) == [status |-> st, description |-> d, schema |-> sch]

\* a workflow of the decoded reply: node references and nested endpoints
Workflow(n, refs, eps) == [name |-> n, nodes |-> refs, endpoints |-> eps]

\* a decoded JSON object with the keys the pipeline reads
JsonObject(n, v, ns, nitems, ws, witems) ==
  [jt |-> "object", name |-> n, description |-> "a service", version |-> v,
   nodes |-> ns,
   nodeItems |-> nitems, workflows |-> ws, wfItems |-> witems,
   endpoints |-> Absent]

\* a decoded JSON value that is no object: null, a number, a string, an array
JsonOther(k) == [NoData EXCEPT !.jt = k]

\* GeneratedBackend; eps is Items(<the endpoints>), or Absent in a model
\* that lacks the endpoints sequence
Backend(n, d, v, nitems, witems, eps) ==
  [jt |-> "backend", name |-> n, description |-> d, version |-> v,
   nodes |-> Arr,
   nodeItems |-> nitems, workflows |-> Arr, wfItems |-> witems,
   endpoints |-> eps]

\* ------------------------------------------------------------------------
\* Assembler: generateBackend, imported from ./generator/backendGenerator by
\* server.ts, cli.ts and index.ts; modelled from sections 3 and 4.2 of the
\* specification
\* ------------------------------------------------------------------------
ErrDangling == "DanglingNodeReference"
ErrEndpoint == "MalformedEndpoint"
DefaultVersion == Str(<<"0", ".", "1", ".", "0">>)
Verbs ==
  {<<"G", "E", "T">>, <<"P", "O", "S", "T">>, <<"P", "U", "T">>,
   <<"D", "E", "L", "E", "T", "E">>}

ToUpperCase(cs) ==
  [i \in 1..Len(cs) |->
     IF \E k \in 1..Len(LowerChars) : LowerChars[k] = cs[i]
       THEN UpperChars[CHOOSE k \in 1..Len(LowerChars) : LowerChars[k] = cs[i]]
       ELSE cs[i]]

RECURSIVE Flatten(_)
Flatten(wfs) ==
  IF wfs = <<>> THEN <<>> ELSE Head(wfs).endpoints \o Flatten(Tail(wfs))

\* every node reference of every workflow names a node of the candidate
RefsResolveMutIgnoreRefs(d) == TRUE

RefsResolve(d) ==
  \A i \in 1..Len(d.wfItems) :
    \A j \in 1..Len(d.wfItems[i].nodes) :
      \E k \in 1..Len(d.nodeItems) :
        d.nodeItems[k].name = d.wfItems[i].nodes[j]

EndpointOk(e) ==
  /\ e.path.t = "string" /\ Len(e.path.s) > 0
  /\ e.method.t = "string" /\ ToUpperCase(e.method.s) \in Verbs

\* path auto-prefixed with "/", method stored in upper case
NormalizeEndpointMutKeepsCase(e) ==
  [e EXCEPT
     !.path = IF StartsWith(e.path.s, <<"/">>) THEN e.path
              ELSE Str(<<"/">> \o e.path.s)]

NormalizeEndpoint(e) ==
  [e EXCEPT
     !.path = IF StartsWith(e.path.s, <<"/">>) THEN e.path
              ELSE Str(<<"/">> \o e.path.s),
     !.method = Str(ToUpperCase(e.method.s))]

Assemble(d) ==
  LET eps == Flatten(d.wfItems) IN
  IF ~RefsResolve(d) THEN Failure(ErrDangling)
  ELSE IF \E i \in 1..Len(eps) : ~EndpointOk(eps[i]) THEN Failure(ErrEndpoint)
  ELSE Success(Backend(d.name, d.description,
                       IF Truthy(d.version) THEN d.version ELSE DefaultVersion,
                       d.nodeItems, d.wfItems,
                       Items([i \in 1..Len(eps) |-> NormalizeEndpoint(eps[i])])))

\* generateBackend after parsePrompt has settled: a Translator failure is
\* forwarded unchanged, a decoded candidate is validated and completed
generateBackendResult(translated) ==
  IF ~translated.success THEN translated ELSE Assemble(translated.data)

\* ------------------------------------------------------------------------
\* Specification Projector: generateOpenAPISpec
\* (src/generator/openApiGenerator.ts)
\* ------------------------------------------------------------------------
ApiPrefix == <<"/", "a", "p", "i">>
Slash == <<"/">>
EmptyMap == [k \in {} |-> k]

\* lines 58-66: the key of spec.paths for an endpoint path
NormalizePathMutNoSlash(path) ==
  IF StartsWith(path, ApiPrefix) THEN Substring(path, Len(ApiPrefix)) ELSE path

NormalizePath(path) ==
  LET stripped ==
        IF StartsWith(path, ApiPrefix)
          THEN Substring(path, Len(ApiPrefix))
          ELSE path
  IN IF ~StartsWith(stripped, Slash) THEN Slash \o stripped ELSE stripped

\* lines 129-150
convertParameter(param) ==
  [name |-> param.name, in |-> param.in, description |-> param.description,
   required |-> param.required,
   schema |-> IF param.in = "body"
                THEN [present |-> FALSE, type |-> ""]
                ELSE [present |-> TRUE, type |-> param.type]]

\* lines 155-169
convertResponse(response) ==
  [description |-> response.description,
   content |-> [present |-> response.schema]]

Digits == <<"0", "1", "2", "3", "4", "5", "6", "7", "8", "9">>

\* Number.prototype.toString of a natural number
RECURSIVE NumberToString(_)
NumberToString(n) ==
  IF n < 10 THEN <<Digits[n + 1]>>
  ELSE NumberToString(n \div 10) \o <<Digits[(n % 10) + 1]>>

\* the tests of the two filter calls, lines 88 and 106
IsBody(p) == p.in = "body"
NotBody(p) == p.in # "body"

NoRequestBody == [present |-> FALSE, description |-> "", required |-> FALSE]

\* lines 83-108: parameters and requestBody of the operation
OperationParametersMutLastBody(endpoint) ==
  LET ps == endpoint.parameters.items
      converted == [i \in 1..Len(ps) |-> convertParameter(ps[i])]
      bodyParams == SelectSeq(ps, IsBody)
  IN
  IF endpoint.parameters.present /\ Len(ps) > 0
    THEN [parameters |->
            IF Len(bodyParams) > 0 THEN Items(SelectSeq(converted, NotBody))
            ELSE Items(converted),
          requestBody |->
            IF Len(bodyParams) > 0
              THEN [present |-> TRUE,
                    description |-> bodyParams[Len(bodyParams)].description,
                    required |-> bodyParams[Len(bodyParams)].required]
              ELSE NoRequestBody]
    ELSE [parameters |-> Absent, requestBody |-> NoRequestBody]

OperationParameters(endpoint) ==
  LET ps == endpoint.parameters.items
      converted == [i \in 1..Len(ps) |-> convertParameter(ps[i])]
      bodyParams == SelectSeq(ps, IsBody)
  IN
  IF endpoint.parameters.present /\ Len(ps) > 0
    THEN [parameters |->
            IF Len(bodyParams) > 0 THEN Items(SelectSeq(converted, NotBody))
            ELSE Items(converted),
          requestBody |->
            IF Len(bodyParams) > 0
              THEN [present |-> TRUE, description |-> bodyParams[1].description,
                    required |-> bodyParams[1].required]
              ELSE NoRequestBody]
    ELSE [parameters |-> Absent, requestBody |-> NoRequestBody]

\* lines 110-120: responses keyed by status; a later response with the same
\* status replaces an earlier one
RECURSIVE ResponsesFrom(_, _)
ResponsesFrom(rs, acc) ==
  IF rs = <<>> THEN acc
  ELSE ResponsesFrom(Tail(rs),
         (NumberToString(Head(rs).status.n) :> convertResponse(Head(rs))) @@ acc)

DefaultResponses ==
  <<"2", "0", "0">> :>
    [description |-> "Successful operation", content |-> [present |-> FALSE]]

OperationResponsesMutAlwaysDefault(endpoint) ==
  ResponsesFrom(endpoint.responses.items, DefaultResponses)

OperationResponses(endpoint) ==
  IF endpoint.responses.present /\ Len(endpoint.responses.items) > 0
    THEN ResponsesFrom(endpoint.responses.items, EmptyMap)
    ELSE DefaultResponses

\* response.status.toString() throws when a response has no status
ResponsesThrow(endpoint) ==
  /\ endpoint.responses.present
  /\ \E i \in 1..Len(endpoint.responses.items) :
       endpoint.responses.items[i].status.t # "number"

\* lines 76-120: the operation object
Operation(endpoint) ==
  [summary |-> endpoint.description, description |-> endpoint.description,
   parameters |-> OperationParameters(endpoint).parameters,
   requestBody |-> OperationParameters(endpoint).requestBody,
   responses |-> OperationResponses(endpoint)]

\* lines 68-71: the path object is created when the key is new
InitPathMutAlwaysNew(paths, key) == (key :> EmptyMap) @@ paths

InitPath(paths, key) ==
  IF key \in DOMAIN paths THEN paths ELSE (key :> EmptyMap) @@ paths

\* lines 122-123: spec.paths[path][method] = operation
PutOperationMutKeepFirst(paths, key, method, operation) ==
  IF method \in DOMAIN paths[key] THEN paths
  ELSE (key :> ((method :> operation) @@ paths[key])) @@ paths

PutOperation(paths, key, method, operation) ==
  (key :> ((method :> operation) @@ paths[key])) @@ paths

\* lines 56-124: addEndpointToSpec on spec.paths; a TypeError when the
\* endpoint has no path string, no method string or a response without status
addEndpointToSpec(paths, endpoint) ==
  IF endpoint.path.t # "string" THEN [threw |-> TRUE, paths |-> paths]
  ELSE
    LET key == NormalizePath(endpoint.path.s)
        withPath == InitPath(paths, key)
    IN
    IF endpoint.method.t # "string" \/ ResponsesThrow(endpoint)
      THEN [threw |-> TRUE, paths |-> withPath]
      ELSE [threw |-> FALSE,
            paths |-> PutOperation(withPath, key,
                                   ToLowerCase(endpoint.method.s),
                                   Operation(endpoint))]

\* lines 30-33: the loop over backend.endpoints
RECURSIVE AddEndpoints(_, _)
AddEndpoints(paths, eps) ==
  IF eps = <<>> THEN [threw |-> FALSE, paths |-> paths]
  ELSE LET step == addEndpointToSpec(paths, Head(eps)) IN
       IF step.threw THEN step ELSE AddEndpoints(step.paths, Tail(eps))

ApiServers == <<<<"/", "a", "p", "i">>>>
OpenApiVersion == <<"3", ".", "0", ".", "0">>

\* the document returned: "spec" is built by lines 12-35, "fallback" by
\* lines 40-49, and "raised" stands for an error leaving the function
SpecDocument(k, title, description, version, paths, components) ==
  [kind |-> k, openapi |-> OpenApiVersion,
   info |-> [title |-> title, description |-> description, version |-> version],
   servers |-> ApiServers, paths |-> paths, components |-> components]

NoSpec == SpecDocument("none", Undef, "", Undef, EmptyMap, FALSE)
Raised == SpecDocument("raised", Undef, "", Undef, EmptyMap, FALSE)

\* lines 40-49
Fallback(b) ==
  SpecDocument("fallback",
               IF Truthy(b.name) THEN b.name
               ELSE Str(<<"G", "e", "n", "e", "r", "a", "t", "e", "d", " ",
                          "A", "P", "I">>),
               "Error generating complete specification",
               IF Truthy(b.version) THEN b.version ELSE DefaultVersion,
               EmptyMap, FALSE)

\* lines 8-35: the body of the try; for..of throws when backend.endpoints
\* is undefined
ProjectBodyMutEmptyThrows(b) ==
  IF ~b.endpoints.present \/ b.endpoints.items = <<>>
    THEN [threw |-> TRUE, paths |-> EmptyMap]
  ELSE AddEndpoints(EmptyMap, b.endpoints.items)

ProjectBody(b) ==
  IF ~b.endpoints.present THEN [threw |-> TRUE, paths |-> EmptyMap]
  ELSE AddEndpoints(EmptyMap, b.endpoints.items)

\* lines 7-51
generateOpenAPISpecMutPartial(b) ==
  IF ProjectBody(b).threw
    THEN [Fallback(b) EXCEPT !.paths = ProjectBody(b).paths]
  ELSE SpecDocument("spec", b.name, b.description, b.version,
                    ProjectBody(b).paths, TRUE)

generateOpenAPISpecMutNoCatch(b) ==
  IF ProjectBody(b).threw THEN Raised
  ELSE SpecDocument("spec", b.name, b.description, b.version,
                    ProjectBody(b).paths, TRUE)

generateOpenAPISpec(b) ==
  IF ProjectBody(b).threw THEN Fallback(b)
  ELSE SpecDocument("spec", b.name, b.description, b.version,
                    ProjectBody(b).paths, TRUE)

\* ------------------------------------------------------------------------
\* Documentation Renderer: generator/documentationGenerator.ts
\* ------------------------------------------------------------------------
\* HTML text is a sequence of chunks, a chunk is a sequence of strings: a
\* literal of the source is one string, a JavaScript string is its characters
Text(s) == <<s>>

\* the escaping of `<%= value %>` of the template
EscapeXML(chunk) ==
  [i \in 1..Len(chunk) |->
     CASE chunk[i] = "&" -> "&amp;"
       [] chunk[i] = "<" -> "&lt;"
       [] chunk[i] = ">" -> "&gt;"
       [] chunk[i] = "\"" -> "&#34;"
       [] chunk[i] = "'" -> "&#39;"
       [] OTHER -> chunk[i]]

\* `<%= v %>` of a JavaScript value: undefined and null give no text
Interpolate(v) ==
  IF v.t \in {"undefined", "null"} THEN <<>> ELSE EscapeXML(v.s)

\* `${v}` of line 33
TemplateLiteral(v) ==
  CASE v.t = "undefined" -> <<"undefined">>
    [] v.t = "null" -> <<"null">>
    [] v.t = "object" -> <<"[object Object]">>
    [] OTHER -> v.s

\* a thrown value and the completion of a block of the renderer
ErrorOf(msg) == [isError |-> TRUE, message |-> msg]
Rendered(out) == [threw |-> FALSE, error |-> ErrorOf(""), out |-> out]
RenderThrows(e) == [threw |-> TRUE, error |-> e, out |-> <<>>]

\* getDefaultTemplate, lines 70-282: literal text, `<%= ... %>` tags and the
\* three sections of the page
getDefaultTemplate ==
  <<"<!DOCTYPE html><html lang=\"en\"><head><title>", "<%= title %>",
    "</title></head><body><header><h1>", "<%= backend.name %>",
    " API Documentation</h1><p>", "<%= backend.description %>",
    "</p><p><strong>Version:</strong> ", "<%= backend.version %>",
    " | <strong>Generated:</strong> ", "<%= date %>",
    "</p></header><main><h2>API Endpoints</h2>",
    "<% if (backend.endpoints && backend.endpoints.length > 0) %>",
    "<h2>Nodes</h2>", "<% if (backend.nodes && backend.nodes.length > 0) %>",
    "<h2>Workflows</h2>",
    "<% if (backend.workflows && backend.workflows.length > 0) %>",
    "</main><footer></footer></body></html>">>

\* lines 190-244 of the template: one endpoint with its two tables
RenderEndpoint(e) ==
  LET ps == e.parameters.items
      rs == e.responses.items
  IN
  IF e.method.t # "string"
    THEN RenderThrows(ErrorOf(
           "Cannot read properties of undefined (reading 'toLowerCase')"))
  ELSE
    Rendered(
      <<Text("<div class=\"endpoint\">"), EscapeXML(ToLowerCase(e.method.s)),
        EscapeXML(e.method.s), Interpolate(e.path), Text(e.description)>>
      \o (IF e.parameters.present /\ Len(ps) > 0
            THEN <<Text("<h4>Parameters</h4>")>>
                 \o [i \in 1..Len(ps) |->
                       <<"<tr><td>", ps[i].name, ps[i].in, ps[i].type,
                         IF ps[i].required THEN "Yes" ELSE "No",
                         ps[i].description>>]
            ELSE <<>>)
      \o (IF e.responses.present /\ Len(rs) > 0
            THEN <<Text("<h4>Responses</h4>")>>
                 \o [i \in 1..Len(rs) |->
                       <<"<tr><td>">>
                       \o (IF rs[i].status.t = "number"
                             THEN NumberToString(rs[i].status.n) ELSE <<>>)
                       \o <<rs[i].description>>]
            ELSE <<>>)
      \o <<Text("</div>")>>)

RECURSIVE RenderEndpoints(_)
RenderEndpoints(es) ==
  IF es = <<>> THEN Rendered(<<>>)
  ELSE LET first == RenderEndpoint(Head(es)) IN
       IF first.threw THEN first
       ELSE LET rest == RenderEndpoints(Tail(es)) IN
            IF rest.threw THEN rest ELSE Rendered(first.out \o rest.out)

\* lines 186-248
EndpointsSection(b) ==
  IF b.endpoints.present /\ Len(b.endpoints.items) > 0
    THEN RenderEndpoints(b.endpoints.items)
    ELSE Rendered(<<Text("<p>No endpoints defined yet.</p>")>>)

\* lines 250-261
NodesSectionMutNoPlaceholder(b) ==
  Rendered(<<Text("<ul>")>>
           \o [i \in 1..Len(b.nodeItems) |->
                 <<"<li>", b.nodeItems[i].name, b.nodeItems[i].type>>]
           \o <<Text("</ul>")>>)

NodesSection(b) ==
  IF Truthy(b.nodes) /\ Len(b.nodeItems) > 0
    THEN Rendered(<<Text("<ul>")>>
                  \o [i \in 1..Len(b.nodeItems) |->
                        <<"<li>", b.nodeItems[i].name, b.nodeItems[i].type>>]
                  \o <<Text("</ul>")>>)
    ELSE Rendered(<<Text("<p>No nodes defined yet.</p>")>>)

\* lines 263-274
WorkflowsSection(b) ==
  IF Truthy(b.workflows) /\ Len(b.wfItems) > 0
    THEN Rendered(<<Text("<ul>")>>
                  \o [i \in 1..Len(b.wfItems) |-> <<"<li>", b.wfItems[i].name>>]
                  \o <<Text("</ul>")>>)
    ELSE Rendered(<<Text("<p>No workflows defined yet.</p>")>>)

\* one piece of a template rendered with the data of lines 31-37
RenderPart(part, b, title, date) ==
  CASE part = "<%= title %>" -> Rendered(<<EscapeXML(title)>>)
    [] part = "<%= backend.name %>" -> Rendered(<<Interpolate(b.name)>>)
    [] part = "<%= backend.description %>" ->
         Rendered(<<EscapeXML(Text(b.description))>>)
    [] part = "<%= backend.version %>" -> Rendered(<<Interpolate(b.version)>>)
    [] part = "<%= date %>" -> Rendered(<<EscapeXML(Text(date))>>)
    [] part = "<% if (backend.endpoints && backend.endpoints.length > 0) %>" ->
         EndpointsSection(b)
    [] part = "<% if (backend.nodes && backend.nodes.length > 0) %>" ->
         NodesSection(b)
    [] part = "<% if (backend.workflows && backend.workflows.length > 0) %>" ->
         WorkflowsSection(b)
    [] OTHER -> Rendered(<<Text(part)>>)

RECURSIVE RenderParts(_, _, _, _)
RenderParts(template, b, title, date) ==
  IF template = <<>> THEN Rendered(<<>>)
  ELSE LET first == RenderPart(Head(template), b, title, date) IN
       IF first.threw THEN first
       ELSE LET rest == RenderParts(Tail(template), b, title, date) IN
            IF rest.threw THEN rest ELSE Rendered(first.out \o rest.out)

\* ejs.render of lines 31-37: a tag that is not closed is a syntax error of
\* the template, found before anything is rendered
ejsRender(template, b, title, date) ==
  IF \E i \in 1..Len(template) : template[i] = "<%= title"
    THEN RenderThrows(ErrorOf("Could not find matching close tag for \"<%=\"."))
    ELSE RenderParts(template, b, title, date)

\* the file system as renderDocumentation sees it: whether src/templates is
\* there, whether src/templates/documentation.ejs is there, and its content
NoTemplate == [dir |-> FALSE, exists |-> FALSE, content |-> <<>>]
Stored(template) == [dir |-> TRUE, exists |-> TRUE, content |-> template]

\* what a call of renderDocumentation leaves behind: the promise and the
\* file system
RenderResult(kind, html, e, fs) ==
  [kind |-> kind, html |-> html, error |-> e, fs |-> fs]

\* lines 43-62
ErrorPageMutEmpty(e) == <<>>

ErrorPage(e) ==
  <<Text("<!DOCTYPE html><html><head><title>Error - API Documentation</title>"),
    Text("<h1>Error Generating Documentation</h1>"),
    Text(IF e.isError THEN e.message ELSE "Unknown error"),
    Text("</body></html>")>>

\* lines 39-64: the catch of renderDocumentation
RenderCatchMutRethrow(e, fs) == RenderResult("rejected", <<>>, e, fs)

RenderCatch(e, fs) == RenderResult("error-page", ErrorPage(e), ErrorOf(""), fs)

\* lines 17-25 with the template already there
EnsureTemplateMutOverwrite(fs, fault) ==
  IF ~fs.dir /\ fault = "mkdir"
    THEN [threw |-> TRUE, message |-> "EACCES: permission denied, mkdir",
          fs |-> fs]
  ELSE IF fault = "write"
    THEN [threw |-> TRUE, message |-> "EACCES: permission denied, open",
          fs |-> [fs EXCEPT !.dir = TRUE]]
  ELSE [threw |-> FALSE, message |-> "", fs |-> Stored(getDefaultTemplate)]

\* lines 17-25: the default template is written when the file is not there;
\* creating the directory or writing the file may fail
EnsureTemplate(fs, fault) ==
  IF fs.exists THEN [threw |-> FALSE, message |-> "", fs |-> fs]
  ELSE IF ~fs.dir /\ fault = "mkdir"
    THEN [threw |-> TRUE, message |-> "EACCES: permission denied, mkdir",
          fs |-> fs]
  ELSE IF fault = "write"
    THEN [threw |-> TRUE, message |-> "EACCES: permission denied, open",
          fs |-> [fs EXCEPT !.dir = TRUE]]
  ELSE [threw |-> FALSE, message |-> "", fs |-> Stored(getDefaultTemplate)]

\* renderDocumentation, lines 10-65: the template is made sure of, read and
\* rendered; whatever is thrown ends in the catch
renderDocumentation(b, fs, fault, date) ==
  LET ensured == EnsureTemplate(fs, fault)
      r == IF fault = "read"
             THEN RenderThrows(ErrorOf("EACCES: permission denied, read"))
           ELSE IF b.name = ObjNoPrim
             THEN RenderThrows(ErrorOf("Cannot convert object to primitive value"))
           ELSE ejsRender(ensured.fs.content, b,
                          TemplateLiteral(b.name) \o <<" API Documentation">>,
                          date)
  IN
  IF ensured.threw THEN RenderCatch(ErrorOf(ensured.message), ensured.fs)
  ELSE IF r.threw THEN RenderCatch(r.error, ensured.fs)
  ELSE RenderResult("document", r.out, ErrorOf(""), ensured.fs)

\* ------------------------------------------------------------------------
\* Inputs of the projector
\* ------------------------------------------------------------------------
TasksApi == <<"/", "a", "p", "i", "/", "t", "a", "s", "k", "s">>
Tasks == <<"t", "a", "s", "k", "s">>
SlashTasks == <<"/", "t", "a", "s", "k", "s">>
MoviesApi == <<"/", "a", "p", "i", "/", "m", "o", "v", "i", "e", "s">>
SlashMovies == <<"/", "m", "o", "v", "i", "e", "s">>
Apiary == <<"/", "a", "p", "i", "a", "r", "y">>
GET == <<"G", "E", "T">>
POST == <<"P", "O", "S", "T">>

ProjPaths ==
  {Str(TasksApi), Str(Tasks), Str(MoviesApi), Str(ApiPrefix), Str(Apiary), Undef}
ProjMethods == {Str(GET), Str(<<"g", "e", "t">>), Str(POST), Undef}

\* endpoints without parameters and responses
PlainEndpoints ==
  {Endpoint(p, m, d, Absent, Absent) :
     p \in ProjPaths, m \in ProjMethods, d \in {"d1", "d2"}}

Status(n) == [t |-> "number", n |-> n]

ProjParams ==
  {Param("a", "query", TRUE, "pa"), Param("b", "path", FALSE, "pb"),
   Param("c", "body", TRUE, "pc"), Param("d", "body", FALSE, "pd")}

ProjResponses ==
  {Resp(Status(200), "ok", TRUE), Resp(Status(404), "missing", FALSE),
   Resp(Status(200), "again", FALSE), Resp([t |-> "undefined", n |-> 0], "ok", FALSE)}

\* endpoints with parameters and responses
DetailedEndpoints ==
  {Endpoint(Str(SlashTasks), Str(POST), "d1", ps, Absent) :
     ps \in {Items(xs) : xs \in SeqsUpTo(ProjParams, MaxParams)}}
  \cup
  {Endpoint(Str(SlashTasks), Str(POST), "d1", Absent, rs) :
     rs \in {Items(xs) : xs \in SeqsUpTo(ProjResponses, MaxResponses)}}
  \cup
  {Endpoint(Str(SlashTasks), Str(POST), "d1",
            Items(<<Param("c", "body", TRUE, "pc")>>),
            Items(<<Resp(Status(404), "missing", FALSE)>>))}

ProjBackend(eps) ==
  Backend(Str(SvcName), "a service", DefaultVersion, <<>>, <<>>, eps)

\* the models handed to generateOpenAPISpec
ProjBackends ==
  {ProjBackend(Items(eps)) : eps \in SeqsUpTo(PlainEndpoints, MaxEndpoints)}
  \cup {ProjBackend(Items(<<e>>)) : e \in DetailedEndpoints}
  \cup {Backend(n, "a service", v, <<>>, <<>>, eps) :
          n \in {Str(SvcName), Undef}, v \in {DefaultVersion, Undef},
          eps \in {Absent, Items(<<>>)}}

\* ------------------------------------------------------------------------
\* Inputs of the generation pipeline
\* ------------------------------------------------------------------------
\* req.body.prompt: missing, empty, blank, padded text, text, a number
Prompts ==
  {Undef, Str(<<>>), Str(<<" ">>), Str(<<"\t", " ">>), Str(<<" ", "a", " ">>),
   Str(<<"a">>), Num(<<"5">>)}

\* process.env.OPENAI_API_KEY
Keys == {Undef, Str(<<>>), Str(<<"s", "k">>)}

NameVals ==
  {Undef, Null, Str(<<>>), Str(SvcName), Num(<<"0">>), Num(<<"7">>), ObjNoPrim}

RawEndpoints ==
  {Endpoint(Str(<<"/", "a", "p", "i", "/", "t">>), Str(<<"G", "E", "T">>),
            "d1", Absent, Absent),
   Endpoint(Str(<<"t">>), Str(<<"p", "o", "s", "t">>), "d2", Absent, Absent),
   Endpoint(Str(<<>>), Str(<<"G", "E", "T">>), "d1", Absent, Absent),
   Endpoint(Str(<<"/", "t">>), Str(<<"P", "A", "T", "C", "H">>), "d1", Absent,
            Absent)}

Workflows ==
  {Workflow("w", refs, eps) :
     refs \in SeqsUpTo(NodeNames, MaxRefs),
     eps \in {<<>>} \cup {<<e>> : e \in RawEndpoints}}

\* the nodes key of a reply: absent, or a list of nodes
NodeLists == {Absent, Items(<<Node("a")>>), Items(<<Node("a"), Node("b")>>)}

\* replies whose top-level keys are missing or of the wrong type
ShapeCases ==
  {JsonObject(n, Undef, Undef, <<>>, w, <<>>) :
     n \in NameVals, w \in {Undef, Null, Obj, Str(<<>>), Arr}}

\* replies of the requested shape
Candidates ==
  {JsonObject(Str(SvcName), Undef, IF ns.present THEN Arr ELSE Undef,
              ns.items, Arr, ws) :
     ns \in NodeLists, ws \in SeqsUpTo(Workflows, MaxWorkflows)}
  \cup {JsonObject(Str(SvcName), Str(<<"1", ".", "0">>), Arr, <<>>, Arr, <<>>)}

DecodedValues ==
  {JsonOther(k) : k \in {"null", "number", "string", "array"}}
  \cup ShapeCases \cup Candidates

\* choices[0].message.content: null, "", text that is not JSON, JSON text
Contents ==
  {[ck |-> k, value |-> NoData] : k \in {"null", "empty", "bad"}}
  \cup {[ck |-> "json", value |-> d] : d \in DecodedValues}

NoContent == [ck |-> "null", value |-> NoData]

NoOutcome == [k |-> "none", msg |-> "", content |-> NoContent]

\* the ways openai.chat.completions.create settles
Outcomes ==
  {[k |-> "rejectError", msg |-> m, content |-> NoContent] : 
          m \in {"Connection error.", "500 status code (no body)", ""}}
  \cup {[k |-> x, msg |-> "", content |-> NoContent] :
          x \in {"rejectOther", "noChoices", "noMessage"}}
  \cup {[k |-> "content", msg |-> "", content |-> c] : c \in Contents}

\* ------------------------------------------------------------------------
\* State
\* ------------------------------------------------------------------------
VARIABLES
  apiKey,            \* process.env.OPENAI_API_KEY
  generatedBackend,  \* server.ts:20, NoData for null
  file,              \* src/generator/generated-backend.json
  pc,                \* per request: "idle", "awaiting", "done"
  prompt,            \* per request: req.body.prompt
  calls,             \* per request: calls of openai.chat.completions.create
  translated,        \* per request: what parsePrompt resolved to
  result,            \* per request: what generateBackend resolved to
  events,            \* per request: responses and broadcasts, in order
  outcome,           \* per request: how the service call settled
  writes,            \* requests in the order they replaced the current model,
                     \* with 0 for a restart of the server
  backend,           \* argument of generateOpenAPISpec, renderDocumentation
  spec,              \* value returned by generateOpenAPISpec
  starts,            \* requests in the order they arrived
  templates,         \* src/templates and src/templates/documentation.ejs
  pages,             \* the calls of renderDocumentation so far, in order
  seen,              \* the last answer of GET /preview, /docs or /api-docs
  reads              \* answers of the read endpoints so far

vars ==
  <<apiKey, generatedBackend, file, pc, prompt, calls, translated, result,
    events, outcome, writes, backend, spec, starts, templates, pages, seen,
    reads>>

\* renderDocumentation has not been called
InitRenderer(fs) ==
  /\ templates \in fs
  /\ pages = <<>>

\* no read has been answered
InitReads ==
  /\ seen = [route |-> "none", status |-> 0, model |-> NoData, html |-> <<>>,
             at |-> 0]
  /\ reads = 0

NoFile == [exists |-> FALSE, valid |-> FALSE, keys |-> {}, doc |-> NoData]

\* JSON.stringify(backend, null, 2) written to the file (server.ts line
\* 697): a property whose value is undefined gets no key in the text
JSONstringifyMutOmitsVersion(b) ==
  [exists |-> TRUE, valid |-> TRUE,
   keys |-> {k \in {"name", "endpoints"} :
               \/ k = "name" /\ b.name # Undef
               \/ k = "endpoints" /\ b.endpoints.present},
   doc |-> b]

JSONstringify(b) ==
  [exists |-> TRUE, valid |-> TRUE,
   keys |-> {k \in {"name", "version", "endpoints"} :
               \/ k = "name" /\ b.name # Undef
               \/ k = "version" /\ b.version # Undef
               \/ k = "endpoints" /\ b.endpoints.present},
   doc |-> b]

\* server.ts lines 40-50: the model loaded when the server is initialized;
\* JSON.parse gives an object on which a key the text lacks reads undefined
LoadBackend(f) ==
  IF f.exists /\ f.valid
    THEN [f.doc EXCEPT
            !.name = IF "name" \in f.keys THEN @ ELSE Undef,
            !.version = IF "version" \in f.keys THEN @ ELSE Undef,
            !.endpoints = IF "endpoints" \in f.keys THEN @ ELSE Absent]
    ELSE NoData

LoadedBackend ==
  Backend(Str(<<"o", "l", "d">>), "an older service", DefaultVersion,
          <<Node("a")>>,
          <<Workflow("w", <<"a">>, <<>>)>>, Items(<<>>))

InitServer ==
  /\ apiKey \in Keys
  /\ file \in {NoFile, JSONstringify(LoadedBackend),
               [exists |-> TRUE, valid |-> FALSE, keys |-> {}, doc |-> NoData]}
  /\ generatedBackend = LoadBackend(file)

\* the requests of the specification Spec
OneRequest == {1}

\* no request has arrived yet
InitRequests(R) ==
  /\ pc = [r \in R |-> "idle"]
  /\ prompt = [r \in R |-> Undef]
  /\ calls = [r \in R |-> 0]
  /\ translated = [r \in R |-> Pending]
  /\ result = [r \in R |-> Pending]
  /\ events = [r \in R |-> <<>>]
  /\ outcome = [r \in R |-> NoOutcome]
  /\ writes = <<>>
  /\ starts = <<>>

Init ==
  /\ InitServer
  /\ InitRequests(OneRequest)
  /\ backend = NoData
  /\ spec = NoSpec
  /\ InitRenderer({NoTemplate})
  /\ InitReads

\* server.ts lines 684-702: the reference is replaced, then the file is
\* written; a failed write (written = FALSE) is logged and swallowed
updateGeneratedBackendMutFirstWins(b, written) ==
  /\ generatedBackend' = IF Len(writes) > 0 THEN generatedBackend ELSE b
  /\ file' = IF written THEN JSONstringify(b) ELSE file

updateGeneratedBackendMutMerge(b, written) ==
  /\ generatedBackend' =
       IF generatedBackend = NoData THEN b
       ELSE [b EXCEPT !.nodeItems = generatedBackend.nodeItems]
  /\ file' = IF written THEN JSONstringify(b) ELSE file

updateGeneratedBackendMutPersistFirst(b, written) ==
  /\ generatedBackend' = IF written THEN b ELSE generatedBackend
  /\ file' = IF written THEN JSONstringify(b) ELSE file

updateGeneratedBackend(b, written) ==
  /\ generatedBackend' = b
  /\ file' = IF written THEN JSONstringify(b) ELSE file

\* the model of a generation is installed when generateBackend succeeded
InstallsMutAlways(g) == TRUE

Installs(g) == g.success

\* the update broadcast by the handlers of lines 563-591
TerminalMutAlwaysComplete(res) == "complete"

Terminal(res) ==
  IF res.success /\ res.data # NoData THEN "complete" ELSE "error"

\* lines 554-598: the first update is broadcast, generateBackend is called
\* and the request is answered with 'Backend generation started'
StartedMutAwaits == <<"in-progress">>

Started == <<"in-progress", "ack">>

\* POST /api/generate, server.ts lines 518-605, up to the point where
\* parsePrompt awaits the service
PostGenerateFrom(r, prompts) ==
  /\ pc[r] = "idle"
  /\ \E p \in prompts :
       LET start == parsePromptStart(p, apiKey) IN
       /\ prompt' = [prompt EXCEPT ![r] = p]
       /\ IF ~Truthy(p)
            THEN /\ events' = [events EXCEPT ![r] = <<"400">>]
                 /\ pc' = [pc EXCEPT ![r] = "done"]
                 /\ UNCHANGED <<calls, translated, result>>
            ELSE IF start.step = "return"
              THEN /\ translated' = [translated EXCEPT ![r] = start.result]
                   /\ result' =
                        [result EXCEPT ![r] = generateBackendResult(start.result)]
                   /\ events' =
                        [events EXCEPT
                           ![r] = Append(Started,
                                         Terminal(generateBackendResult(start.result)))]
                   /\ pc' = [pc EXCEPT ![r] = "done"]
                   /\ UNCHANGED calls
              ELSE /\ calls' = [calls EXCEPT ![r] = 1]
                   /\ events' = [events EXCEPT ![r] = Started]
                   /\ pc' = [pc EXCEPT ![r] = "awaiting"]
                   /\ UNCHANGED <<translated, result>>
  /\ starts' = Append(starts, r)
  /\ UNCHANGED <<apiKey, generatedBackend, file, outcome, writes, backend, spec,
                 templates, pages, seen, reads>>

\* the service call of request r settles: the rest of parsePrompt, the rest
\* of generateBackend and the then/catch handlers of lines 563-591 run
ServiceSettlesFrom(r, outcomes) ==
  /\ pc[r] = "awaiting"
  /\ \E o \in outcomes, written \in BOOLEAN :
       LET t == parsePromptResume(o)
           g == generateBackendResult(t)
       IN
       /\ outcome' = [outcome EXCEPT ![r] = o]
       /\ calls' = [calls EXCEPT ![r] = @ + FurtherCalls(t)]
       /\ translated' = [translated EXCEPT ![r] = t]
       /\ result' = [result EXCEPT ![r] = g]
       /\ IF Installs(g)
            THEN /\ updateGeneratedBackend(g.data, written)
                 /\ writes' = Append(writes, r)
            ELSE UNCHANGED <<generatedBackend, file, writes>>
       /\ events' = [events EXCEPT ![r] = Append(@, Terminal(g))]
       /\ pc' = [pc EXCEPT ![r] = "done"]
  /\ UNCHANGED <<apiKey, prompt, backend, spec, starts, templates, pages,
                 seen, reads>>

PostGenerate(r) == PostGenerateFrom(r, Prompts)
ServiceSettles(r) == ServiceSettlesFrom(r, Outcomes)

Next ==
  \/ \E r \in OneRequest : PostGenerate(r)
  \/ \E r \in OneRequest : ServiceSettles(r)

Spec == Init /\ [][Next]_vars

\* ------------------------------------------------------------------------
\* The projector applied to a model
\* ------------------------------------------------------------------------
InitProject ==
  /\ apiKey = Undef
  /\ file = NoFile
  /\ generatedBackend = NoData
  /\ InitRequests(OneRequest)
  /\ backend \in ProjBackends
  /\ spec = NoSpec
  /\ InitRenderer({NoTemplate})
  /\ InitReads

Project ==
  /\ spec.kind = "none"
  /\ backend.jt = "backend"
  /\ spec' = generateOpenAPISpec(backend)
  /\ UNCHANGED <<apiKey, generatedBackend, file, pc, prompt, calls, translated,
                 result, events, outcome, writes, backend, starts, templates, pages,
                 seen, reads>>

SpecProject == InitProject /\ [][Project]_vars

\* ------------------------------------------------------------------------
\* The renderer applied to a model
\* ------------------------------------------------------------------------
\* a template somebody put there, and one with a tag that is not closed
CustomTemplate == <<"<html><h1>", "<%= title %>", "</h1></html>">>
BrokenTemplate == <<"<html><h1>", "<%= title">>

TemplateStates ==
  {NoTemplate, [NoTemplate EXCEPT !.dir = TRUE], Stored(getDefaultTemplate),
   Stored(CustomTemplate), Stored(BrokenTemplate)}

\* the file operation of lines 18-28 that fails in a call, if any
Faults == {"none", "mkdir", "write", "read"}

\* new Date().toISOString().split('T')[0]
Dates == {"2025-01-01", "2025-12-31"}

\* the models handed to renderDocumentation: empty ones, full ones, and
\* ones with fields that are not there
RenderBackends ==
  LET AnEndpoint ==
        Endpoint(Str(SlashTasks), Str(GET), "d1",
                 Items(<<Param("a", "query", TRUE, "pa")>>),
                 Items(<<Resp(Status(200), "ok", FALSE)>>))
  IN
  {Backend(n, "a service", DefaultVersion, <<>>, <<>>, eps) :
     n \in {Str(SvcName), Str(<<"a", "<", "b">>), Undef, ObjNoPrim},
     eps \in {Absent, Items(<<>>)}}
  \cup
  {Backend(Str(SvcName), "a service", v, ns, ws, Items(eps)) :
     v \in {DefaultVersion, Undef},
     ns \in {<<>>, <<Node("a")>>},
     ws \in {<<>>, <<Workflow("w", <<>>, <<>>)>>},
     eps \in {<<>>, <<AnEndpoint>>,
              <<AnEndpoint, Endpoint(Str(SlashTasks), Undef, "d2", Absent, Absent)>>}}

InitRender ==
  /\ apiKey = Undef
  /\ file = NoFile
  /\ generatedBackend = NoData
  /\ InitRequests(OneRequest)
  /\ backend \in RenderBackends
  /\ spec = NoSpec
  /\ InitRenderer(TemplateStates)
  /\ InitReads

\* one call of renderDocumentation(backend); the call is recorded with the
\* file system it found, the file operation that failed and the date
Render ==
  /\ Len(pages) < MaxRenders
  /\ \E f \in Faults, d \in Dates :
       LET res == renderDocumentation(backend, templates, f, d) IN
       /\ pages' = Append(pages, [result |-> res, before |-> templates,
                                  fault |-> f, date |-> d])
       /\ templates' = res.fs
  /\ UNCHANGED <<apiKey, generatedBackend, file, pc, prompt, calls, translated,
                 result, events, outcome, writes, backend, spec, starts,
                 seen, reads>>

SpecRender == InitRender /\ [][Render]_vars

\* ------------------------------------------------------------------------
\* Two generation requests and the read endpoints
\* ------------------------------------------------------------------------
TwoRequests == {1, 2}

\* the prompts and the replies of the two requests: a missing, a blank and a
\* good prompt; a failed call and two replies that give different models
ConcurrentPrompts == {Undef, Str(<<" ">>), Str(<<"a">>)}

ConcurrentOutcomes ==
  {[k |-> "rejectError", msg |-> "Connection error.", content |-> NoContent]}
  \cup
  {[k |-> "content", msg |-> "", content |-> [ck |-> "json", value |-> d]] :
     d \in {JsonObject(Str(SvcName), Undef, Arr, <<Node("a")>>, Arr,
                       <<Workflow("w", <<"a">>, <<>>)>>),
            JsonObject(Str(SvcName), Str(<<"1", ".", "0">>), Arr, <<>>, Arr,
                       <<>>)}}

InitConcurrent ==
  /\ InitServer
  /\ InitRequests(TwoRequests)
  /\ backend = NoData
  /\ spec = NoSpec
  /\ InitRenderer({NoTemplate, Stored(getDefaultTemplate)})
  /\ InitReads

\* the answer of a read endpoint, with the number of replacements before it
Answer(route, status, model, html) ==
  [route |-> route, status |-> status, model |-> model, html |-> html,
   at |-> Len(writes)]

\* lines 137-142 and 149-154
NotFound(route) == Answer(route, 404, NoData, <<>>)

\* GET /preview, server.ts lines 136-145
GetPreviewMutStamps ==
  /\ reads < MaxReads
  /\ seen' = IF generatedBackend = NoData THEN NotFound("preview")
             ELSE Answer("preview", 200, generatedBackend, <<>>)
  /\ generatedBackend' =
       IF generatedBackend = NoData THEN NoData
       ELSE [generatedBackend EXCEPT !.description = "previewed"]
  /\ reads' = reads + 1
  /\ UNCHANGED <<apiKey, file, pc, prompt, calls, translated,
                 result, events, outcome, writes, backend, spec, starts,
                 templates, pages>>

GetPreview ==
  /\ reads < MaxReads
  /\ seen' = IF generatedBackend = NoData THEN NotFound("preview")
             ELSE Answer("preview", 200, generatedBackend, <<>>)
  /\ reads' = reads + 1
  /\ UNCHANGED <<apiKey, generatedBackend, file, pc, prompt, calls, translated,
                 result, events, outcome, writes, backend, spec, starts,
                 templates, pages>>

\* GET /docs, server.ts lines 148-165
GetDocs ==
  /\ reads < MaxReads
  /\ IF generatedBackend = NoData
       THEN /\ seen' = NotFound("docs")
            /\ UNCHANGED <<templates, pages>>
       ELSE \E f \in Faults, d \in Dates :
              LET res == renderDocumentation(generatedBackend, templates, f, d)
              IN
              /\ seen' = Answer("docs",
                                IF res.kind = "rejected" THEN 500 ELSE 200,
                                generatedBackend, res.html)
              /\ pages' = Append(pages, [result |-> res, before |-> templates,
                                         fault |-> f, date |-> d])
              /\ templates' = res.fs
  /\ reads' = reads + 1
  /\ UNCHANGED <<apiKey, generatedBackend, file, pc, prompt, calls, translated,
                 result, events, outcome, writes, backend, spec, starts>>

\* GET /api-docs, server.ts lines 169-191; swagger says whether
\* src/generator/swagger.json is missing, is no JSON text, or is there
GetApiDocs ==
  /\ reads < MaxReads
  /\ \E swagger \in {"missing", "invalid", "ok"} :
       seen' = Answer("api-docs",
                      IF generatedBackend = NoData THEN 302
                      ELSE IF swagger = "missing" THEN 404
                      ELSE IF swagger = "invalid" THEN 500
                      ELSE 200,
                      NoData, <<>>)
  /\ reads' = reads + 1
  /\ UNCHANGED <<apiKey, generatedBackend, file, pc, prompt, calls, translated,
                 result, events, outcome, writes, backend, spec, starts,
                 templates, pages>>

NextConcurrent ==
  \/ \E r \in TwoRequests : PostGenerateFrom(r, ConcurrentPrompts)
  \/ \E r \in TwoRequests : ServiceSettlesFrom(r, ConcurrentOutcomes)
  \/ GetPreview
  \/ GetDocs
  \/ GetApiDocs

SpecConcurrent == InitConcurrent /\ [][NextConcurrent]_vars

\* ------------------------------------------------------------------------
\* One generation request and restarts of the server
\* ------------------------------------------------------------------------
\* the process ends and initializeServer of a new process runs (server.ts
\* lines 40-50): the current model is whatever the file gives, a generation
\* still in flight is lost with the old process; a restart is recorded as
\* entry 0 of writes
Restart ==
  /\ Cardinality({i \in 1..Len(writes) : writes[i] = 0}) < MaxRestarts
  /\ generatedBackend' = LoadBackend(file)
  /\ writes' = Append(writes, 0)
  /\ pc' = [r \in DOMAIN pc |-> IF pc[r] = "awaiting" THEN "lost" ELSE pc[r]]
  /\ UNCHANGED <<apiKey, file, prompt, calls, translated, result, events,
                 outcome, backend, spec, starts, templates, pages, seen, reads>>

\* the replies with at most one workflow of at most two node references
RestartOutcomes ==
  {o \in Outcomes :
     LET ws == o.content.value.wfItems IN
     Len(ws) <= 1 /\ \A i \in 1..Len(ws) : Len(ws[i].nodes) <= 2}

NextRestart ==
  \/ \E r \in OneRequest : PostGenerate(r)
  \/ \E r \in OneRequest : ServiceSettlesFrom(r, RestartOutcomes)
  \/ Restart

SpecRestart == Init /\ [][NextRestart]_vars

\* ------------------------------------------------------------------------
\* Claims about the generation pipeline
\* ------------------------------------------------------------------------
Settled(r) == pc[r] = "done" /\ calls[r] > 0
Reply(r) == outcome[r].content

\* some node reference of a workflow of b names no node of b
HasDangling(b) ==
  \E i \in 1..Len(b.wfItems) :
    \E j \in 1..Len(b.wfItems[i].nodes) :
      \A k \in 1..Len(b.nodeItems) :
        b.nodeItems[k].name # b.wfItems[i].nodes[j]

\* C1: every model the Assembler returns has all node references of all its
\* workflows resolving to a node of the model; a candidate with a reference
\* that does not resolve is rejected with DanglingNodeReference and is
\* neither returned nor installed as the current model.
C1_ReferencesResolve ==
  /\ \A r \in DOMAIN pc :
       /\ result[r].success =>
            /\ result[r].data.jt = "backend"
            /\ ~HasDangling(result[r].data)
       /\ (translated[r].success /\ HasDangling(translated[r].data)) =>
            /\ result[r] = Failure(ErrDangling)
            /\ ~\E i \in 1..Len(writes) : writes[i] = r
  /\ ~HasDangling(generatedBackend)

C1_Witness ==
  \E r \in DOMAIN pc :
    /\ result[r].success
    /\ Len(result[r].data.wfItems) > 0
    /\ Len(result[r].data.wfItems[1].nodes) = MaxRefs
    /\ generatedBackend = result[r].data

\* the decoded reply lacks a non-empty name, lacks workflows, or its
\* workflows is no sequence
LacksKeys(d) ==
  \/ d.jt # "object"
  \/ d.name \in {Undef, Null, Str(<<>>)}
  \/ d.workflows.t # "array"

\* C2: for every decoded reply that lacks a non-empty name, lacks workflows
\* or whose workflows is not a sequence, generation returns the InvalidShape
\* failure ("Invalid data format in OpenAI response") and the request
\* installs no model as the current model.
C2_MissingKeysInvalidShape ==
  \A r \in DOMAIN pc :
    (Settled(r) /\ outcome[r].k = "content" /\ Reply(r).ck = "json"
       /\ LacksKeys(Reply(r).value)) =>
      /\ translated[r] = Failure(ErrInvalidShape)
      /\ result[r] = Failure(ErrInvalidShape)
      /\ ~\E i \in 1..Len(writes) : writes[i] = r

\* the prompt is a string made of white space only (empty after trimming)
Blank(p) == p.t = "string" /\ \A i \in 1..Len(p.s) : p.s[i] \in {" ", "\t", "\n"}

\* C3: when the prompt is empty after trimming or the configuration carries
\* no credential, parsePrompt returns a failure and the invocation makes no
\* call to the text-generation service.
C3_InputErrorBeforeCall ==
  \A r \in DOMAIN pc :
    (pc[r] # "idle" /\ (Blank(prompt[r]) \/ apiKey \in {Undef, Str(<<>>)})) =>
      /\ calls[r] = 0
      /\ pc[r] = "done"
      /\ ~result[r].success
      /\ outcome[r].k = "none"

C3_Witness ==
  \E r \in DOMAIN pc :
    /\ prompt[r] = Str(<<"a">>)
    /\ apiKey = Undef
    /\ translated[r] = Failure(ErrNoKey)
    /\ calls[r] = 0

\* C4: parsePrompt never raises: whatever the prompt, the configuration and
\* the behaviour of the service, it resolves to a tagged result, success with
\* data or failure with a message and no data.
C4_NeverRaises ==
  \A r \in DOMAIN pc :
    /\ translated[r].settled # "rejected"
    /\ (pc[r] = "done" /\ events[r] # <<"400">>) =>
         /\ translated[r].settled = "fulfilled"
         /\ translated[r].success => translated[r].data # NoData
         /\ ~translated[r].success => translated[r].data = NoData

C4_Witness ==
  \E r \in DOMAIN pc :
    /\ Settled(r)
    /\ outcome[r].k = "rejectError"
    /\ translated[r] = Failure("Connection error.")

\* the service was unreachable, answered with an error, or gave no completion
Upstream(o) ==
  \/ o.k \in {"rejectError", "rejectOther", "noChoices", "noMessage"}
  \/ o.k = "content" /\ o.content.ck \in {"null", "empty"}

\* C5: a reply that is not parseable as JSON yields the failure "Failed to
\* parse OpenAI response as JSON"; no upstream failure is reported with a
\* decode failure's message and no decode failure with an upstream one.
C5_DecodeDistinctFromUpstream ==
  \A r \in DOMAIN pc :
    Settled(r) =>
      /\ (outcome[r].k = "content" /\ Reply(r).ck = "bad") =>
           translated[r] = Failure(ErrNotJson)
      /\ Upstream(outcome[r]) =>
           /\ ~translated[r].success
           /\ translated[r].error \notin {ErrNotJson, ErrInvalidShape}
      /\ (~Upstream(outcome[r]) /\ ~translated[r].success) =>
           translated[r].error \in {ErrNotJson, ErrInvalidShape}

C5_Witness ==
  \E r \in DOMAIN pc :
    /\ Settled(r)
    /\ outcome[r].k = "content" /\ Reply(r).ck = "bad"
    /\ translated[r] = Failure(ErrNotJson)
    /\ events[r] = <<"in-progress", "ack", "error">>

\* the input checks of parsePrompt pass
PassesChecks(r) ==
  /\ prompt[r].t = "string" /\ ~Blank(prompt[r])
  /\ apiKey \notin {Undef, Str(<<>>)}

Eps == backend.endpoints.items

\* the model lacks the endpoints sequence, or an endpoint lacks path or method
Inconsistent(b) ==
  \/ ~b.endpoints.present
  \/ \E i \in 1..Len(b.endpoints.items) :
       \/ b.endpoints.items[i].path.t # "string"
       \/ b.endpoints.items[i].method.t # "string"

\* C7: generateOpenAPISpec is total: for every model it returns a
\* specification and never raises; for a model with an inconsistency (no
\* endpoints sequence, an endpoint without path or method) the result is the
\* minimal valid specification with an empty paths mapping.
C7_ProjectorTotal ==
  /\ spec.kind \in {"none", "spec", "fallback"}
  /\ spec.openapi = OpenApiVersion /\ spec.servers = ApiServers
  /\ (spec.kind # "none" /\ Inconsistent(backend)) =>
       /\ spec.kind = "fallback"
       /\ DOMAIN spec.paths = {}
       /\ spec.info.title.t = "string" /\ Len(spec.info.title.s) > 0
       /\ spec.info.version.t = "string" /\ Len(spec.info.version.s) > 0

C7_Witness ==
  /\ spec.kind = "fallback"
  /\ backend.endpoints.present /\ Len(Eps) = 2
  /\ Eps[1].path = Str(TasksApi) /\ Eps[1].method = Str(GET)
  /\ Eps[2].path = Str(Tasks) /\ Eps[2].method = Undef
  /\ DOMAIN spec.paths = {}

\* the endpoint path with a leading "/api" removed if present, then
\* prefixed with "/" if it does not start with one
WithoutApi(p) ==
  IF Len(p) >= 4 /\ p[1] = "/" /\ p[2] = "a" /\ p[3] = "p" /\ p[4] = "i"
    THEN [i \in 1..(Len(p) - 4) |-> p[i + 4]]
    ELSE p

ExpectedKey(p) ==
  IF WithoutApi(p) # <<>> /\ WithoutApi(p)[1] = "/" THEN WithoutApi(p)
  ELSE <<"/">> \o WithoutApi(p)

\* C8: the path key of every endpoint in the projected specification is its
\* path with a leading "/api" removed and then prefixed with "/" if needed:
\* "/api/tasks" and "tasks" both yield "/tasks", and every key of paths
\* starts with "/".
C8_PathKeys ==
  spec.kind = "spec" =>
    /\ \A k \in DOMAIN spec.paths : Len(k) > 0 /\ k[1] = "/"
    /\ DOMAIN spec.paths = {ExpectedKey(Eps[i].path.s) : i \in 1..Len(Eps)}
    /\ \A i \in 1..Len(Eps) :
         Eps[i].path \in {Str(TasksApi), Str(Tasks)} =>
           SlashTasks \in DOMAIN spec.paths

C8_Witness ==
  /\ spec.kind = "spec"
  /\ Len(Eps) = 2
  /\ Eps[1].path = Str(TasksApi) /\ Eps[2].path = Str(Tasks)
  /\ DOMAIN spec.paths = {SlashTasks}

\* C9: endpoints that share a normalized path and differ by method
\* accumulate under one path key, each under its lower-cased method; GET
\* /api/movies and POST /api/movies, in either order, project to the single
\* path key /movies holding a get and a post operation.
C9_MethodsAccumulate ==
  spec.kind = "spec" =>
    /\ \A i \in 1..Len(Eps) :
         DOMAIN spec.paths[ExpectedKey(Eps[i].path.s)] =
           {ToLowerCase(Eps[j].method.s) :
              j \in {n \in 1..Len(Eps) :
                       ExpectedKey(Eps[n].path.s) = ExpectedKey(Eps[i].path.s)}}
    /\ (/\ \A i \in 1..Len(Eps) : Eps[i].path = Str(MoviesApi)
        /\ {Eps[i].method : i \in 1..Len(Eps)} = {Str(GET), Str(POST)}) =>
         /\ DOMAIN spec.paths = {SlashMovies}
         /\ DOMAIN spec.paths[SlashMovies] =
              {<<"g", "e", "t">>, <<"p", "o", "s", "t">>}

C9_Witness ==
  /\ spec.kind = "spec"
  /\ Len(Eps) = 2
  /\ Eps[1].path = Str(MoviesApi) /\ Eps[1].method = Str(POST)
  /\ Eps[2].path = Str(MoviesApi) /\ Eps[2].method = Str(GET)
  /\ DOMAIN spec.paths = {SlashMovies}
  /\ Cardinality(DOMAIN spec.paths[SlashMovies]) = 2

\* endpoints i and j have the same normalized path and the same method up
\* to case
SameOperation(i, j) ==
  /\ ExpectedKey(Eps[i].path.s) = ExpectedKey(Eps[j].path.s)
  /\ ToLowerCase(Eps[i].method.s) = ToLowerCase(Eps[j].method.s)

\* C10: when several endpoints have the same normalized path and the same
\* method up to case, the projected specification holds one operation for
\* that path and method, built from the last of them in the endpoints
\* sequence, and no error is raised.
C10_LastWriteWins ==
  /\ spec.kind = "spec" =>
       \A i \in 1..Len(Eps) :
         (\A j \in (i + 1)..Len(Eps) : ~SameOperation(i, j)) =>
           /\ spec.paths[ExpectedKey(Eps[i].path.s)]
                [ToLowerCase(Eps[i].method.s)].description = Eps[i].description
           /\ spec.paths[ExpectedKey(Eps[i].path.s)]
                [ToLowerCase(Eps[i].method.s)].summary = Eps[i].description
  /\ (/\ spec.kind # "none"
      /\ ~Inconsistent(backend)
      /\ \A i \in 1..Len(Eps) : ~Eps[i].responses.present) =>
       spec.kind = "spec"

C10_Witness ==
  /\ spec.kind = "spec"
  /\ Len(Eps) = 2
  /\ Eps[1] = Endpoint(Str(TasksApi), Str(GET), "d1", Absent, Absent)
  /\ Eps[2] = Endpoint(Str(Tasks), Str(<<"g", "e", "t">>), "d2", Absent, Absent)
  /\ DOMAIN spec.paths[SlashTasks] = {<<"g", "e", "t">>}
  /\ spec.paths[SlashTasks][<<"g", "e", "t">>].description = "d2"

\* the operation projected for the only endpoint of the model
TheEndpoint == Eps[1]
TheOperation ==
  spec.paths[ExpectedKey(TheEndpoint.path.s)][ToLowerCase(TheEndpoint.method.s)]
InParams == TheEndpoint.parameters.items
BodyIndexes == {i \in 1..Len(InParams) : InParams[i].in = "body"}
OtherIndexes == {i \in 1..Len(InParams) : InParams[i].in # "body"}
\* the index in the endpoint of the k-th parameter that is not at body
KthOther(k) ==
  CHOOSE i \in OtherIndexes : Cardinality({j \in OtherIndexes : j <= i}) = k

StatusKey(n) ==
  IF n = 200 THEN <<"2", "0", "0">> ELSE IF n = 404 THEN <<"4", "0", "4">>
  ELSE <<>>

\* C12: an endpoint whose responses are absent or empty projects to exactly
\* one response, keyed 200, with description "Successful operation"; an
\* endpoint that supplies responses projects to responses keyed by exactly
\* the supplied status codes, with no default entry added.
C12_DefaultResponse ==
  (spec.kind = "spec" /\ Len(Eps) = 1) =>
    LET rs == TheEndpoint.responses IN
    IF ~rs.present \/ Len(rs.items) = 0
      THEN /\ DOMAIN TheOperation.responses = {<<"2", "0", "0">>}
           /\ TheOperation.responses[<<"2", "0", "0">>].description =
                "Successful operation"
           /\ ~TheOperation.responses[<<"2", "0", "0">>].content.present
      ELSE /\ DOMAIN TheOperation.responses =
                {StatusKey(rs.items[i].status.n) : i \in 1..Len(rs.items)}
           /\ \A i \in 1..Len(rs.items) :
                \E j \in 1..Len(rs.items) :
                  /\ rs.items[j].status = rs.items[i].status
                  /\ TheOperation.responses[StatusKey(rs.items[i].status.n)]
                       .description = rs.items[j].description

C12_Witness ==
  /\ spec.kind = "spec" /\ Len(Eps) = 1
  /\ TheEndpoint.responses = Items(<<Resp(Status(404), "missing", FALSE)>>)
  /\ DOMAIN TheOperation.responses = {<<"4", "0", "4">>}

\* C13: a model with zero endpoints projects to a specification with an
\* empty paths mapping, built on the normal path: title, description and
\* version are those of the model and the result is not the fallback.
C13_ZeroEndpoints ==
  (spec.kind # "none" /\ backend.endpoints.present /\ Len(Eps) = 0) =>
    /\ spec.kind = "spec"
    /\ DOMAIN spec.paths = {}
    /\ spec.info.title = backend.name
    /\ spec.info.description = backend.description
    /\ spec.info.version = backend.version
    /\ spec.components

C13_Witness ==
  /\ spec.kind = "spec"
  /\ backend.endpoints = Items(<<>>)
  /\ backend.name = Str(SvcName)
  /\ spec.info.title = Str(SvcName)
  /\ DOMAIN spec.paths = {}

\* ------------------------------------------------------------------------
\* Claims about the Documentation Renderer
\* ------------------------------------------------------------------------
Contains(html, chunk) == \E i \in 1..Len(html) : html[i] = chunk

\* the page starts and ends as a document of its own
SelfContained(html) ==
  /\ Len(html) >= 2
  /\ html[1] \in
       {Text("<!DOCTYPE html><html lang=\"en\"><head><title>"),
        Text("<!DOCTYPE html><html><head><title>Error - API Documentation</title>")}
  /\ html[Len(html)] \in
       {Text("</main><footer></footer></body></html>"), Text("</body></html>")}

\* the template a call renders: the stored one, or the default one
TemplateUsed(call) ==
  IF call.before.exists THEN call.before.content ELSE getDefaultTemplate

\* the messages of the failures that the inputs of a call cause
FailuresOf(call) ==
  (IF ~call.before.exists /\ ~call.before.dir /\ call.fault = "mkdir"
     THEN {"EACCES: permission denied, mkdir"} ELSE {})
  \cup (IF ~call.before.exists /\ call.fault = "write"
          THEN {"EACCES: permission denied, open"} ELSE {})
  \cup (IF call.fault = "read" THEN {"EACCES: permission denied, read"} ELSE {})
  \cup (IF TemplateUsed(call) = BrokenTemplate
          THEN {"Could not find matching close tag for \"<%=\"."} ELSE {})
  \cup (IF backend.name = ObjNoPrim
          THEN {"Cannot convert object to primitive value"} ELSE {})
  \cup (IF /\ TemplateUsed(call) = getDefaultTemplate
           /\ \E i \in 1..Len(Eps) : Eps[i].method.t # "string"
          THEN {"Cannot read properties of undefined (reading 'toLowerCase')"}
          ELSE {})

\* C14: renderDocumentation never raises: every call resolves to an HTML
\* body, and a call in which a failure happens (directory or template not
\* creatable or readable, a syntax error of the template, a missing field of
\* the model) resolves to a self-contained error page that embeds the
\* message of the failure.
C14_RendererNeverRaises ==
  \A i \in 1..Len(pages) :
    LET call == pages[i] IN
    /\ call.result.kind \in {"document", "error-page"}
    /\ call.result.html # <<>>
    /\ (FailuresOf(call) # {}) =>
         /\ call.result.kind = "error-page"
         /\ SelfContained(call.result.html)
         /\ \E msg \in FailuresOf(call) : Contains(call.result.html, Text(msg))
    /\ (FailuresOf(call) = {}) => call.result.kind = "document"

C14_Witness ==
  /\ Len(pages) = 2
  /\ pages[1].fault = "mkdir" /\ pages[1].before = NoTemplate
  /\ Contains(pages[1].result.html, Text("EACCES: permission denied, mkdir"))
  /\ pages[2].fault = "none" /\ pages[2].result.kind = "error-page"
  /\ Contains(pages[2].result.html,
              Text("Cannot read properties of undefined (reading 'toLowerCase')"))

\* the call creates the directory and writes the file without a failure
CanWrite(call) ==
  /\ call.fault # "write"
  /\ call.fault = "mkdir" => call.before.dir

\* C15: a template that is stored is never written by a call; a call that
\* finds no template stores the default one before it reads the template,
\* so that it renders the default template; after that the stored template
\* is the same after every call.
C15_LazyTemplate ==
  \A i \in 1..Len(pages) :
    LET call == pages[i] IN
    /\ call.before.exists => call.result.fs = call.before
    /\ (~call.before.exists /\ CanWrite(call)) =>
         /\ call.result.fs = Stored(getDefaultTemplate)
         /\ (FailuresOf(call) = {}) =>
              /\ call.result.kind = "document"
              /\ Head(call.result.html) =
                   Text("<!DOCTYPE html><html lang=\"en\"><head><title>")
    /\ \A j \in 1..Len(pages) :
         (i < j /\ call.result.fs.exists) =>
           /\ pages[j].before = call.result.fs
           /\ pages[j].result.fs = call.result.fs
    /\ i = Len(pages) => templates = call.result.fs

C15_Witness ==
  /\ Len(pages) = 2
  /\ pages[1].before = NoTemplate /\ pages[1].fault = "none"
  /\ pages[1].result.kind = "document"
  /\ pages[1].result.fs = Stored(getDefaultTemplate)
  /\ pages[2].result.kind = "document"
  /\ templates = Stored(getDefaultTemplate)

\* C16: with the default template, a model with no nodes and no workflows
\* is rendered as a whole HTML document that holds the placeholder of the
\* nodes section and the placeholder of the workflows section; likewise a
\* model with no endpoints holds the placeholder of the endpoints section.
C16_EmptySections ==
  \A i \in 1..Len(pages) :
    LET call == pages[i] IN
    (/\ FailuresOf(call) = {}
     /\ TemplateUsed(call) = getDefaultTemplate) =>
      /\ call.result.kind = "document"
      /\ SelfContained(call.result.html)
      /\ Contains(call.result.html, Text("<h2>Nodes</h2>"))
      /\ Contains(call.result.html, Text("<h2>Workflows</h2>"))
      /\ Len(backend.nodeItems) = 0 =>
           Contains(call.result.html, Text("<p>No nodes defined yet.</p>"))
      /\ Len(backend.wfItems) = 0 =>
           Contains(call.result.html, Text("<p>No workflows defined yet.</p>"))
      /\ Len(Eps) = 0 =>
           Contains(call.result.html, Text("<p>No endpoints defined yet.</p>"))

C16_Witness ==
  /\ Len(pages) = 1
  /\ backend.nodeItems = <<>> /\ backend.wfItems = <<>> /\ Eps = <<>>
  /\ backend.endpoints.present
  /\ pages[1].before = [NoTemplate EXCEPT !.dir = TRUE]
  /\ pages[1].result.kind = "document"
  /\ Contains(pages[1].result.html, Text("<p>No nodes defined yet.</p>"))
  /\ Contains(pages[1].result.html, Text("<p>No workflows defined yet.</p>"))
  /\ Contains(pages[1].result.html, Text("<p>No endpoints defined yet.</p>"))

\* ------------------------------------------------------------------------
\* Claims about the server
\* ------------------------------------------------------------------------
\* the current model after k replacements
ModelAt(k) == IF k = 0 THEN LoadedBackend ELSE result[writes[k]].data

\* C17: a read of GET /preview or GET /docs that finds a model answers with
\* one whole model, the one loaded at the start or the one of the last
\* replacement before the read, and the page of GET /docs is rendered from
\* that model alone; the current model is always the one written last.
C17_ReadsSeeWholeModel ==
  /\ (seen.route \in {"preview", "docs"} /\ seen.status = 200) =>
       /\ seen.model = ModelAt(seen.at)
       /\ seen.route = "docs" =>
            LET call == pages[Len(pages)] IN
            seen.html =
              renderDocumentation(ModelAt(seen.at), call.before, call.fault,
                                  call.date).html
  /\ (seen.route \in {"preview", "docs"} /\ seen.status = 404) => seen.at = 0
  /\ seen.route \in {"preview", "docs"} => seen.status \in {200, 404}
  /\ generatedBackend =
       IF Len(writes) = 0 THEN LoadBackend(file) ELSE ModelAt(Len(writes))

C17_Witness ==
  /\ seen.route = "docs" /\ seen.status = 200
  /\ seen.at = 1 /\ Len(writes) = 2
  /\ seen.model # generatedBackend
  /\ seen.model = result[writes[1]].data

BothDone == \A r \in TwoRequests : pc[r] = "done"

\* C18 as stated: of two requests started one after the other, when the
\* second has a model and the first did not replace the current model
\* before it, the second's model is the current model at the end.
C18_SecondStaysCurrent ==
  (/\ starts = <<1, 2>> /\ BothDone
   /\ result[2].success
   /\ writes # <<1, 2>>) =>
    generatedBackend = result[2].data

\* C18, amended: of two requests started one after the other where the
\* second completes first, the current model at the end is the one of the
\* request that completed last: the first's model when the first succeeds,
\* the second's model when the first fails.
C18_LastCompletedWins ==
  (starts = <<1, 2>> /\ BothDone) =>
    /\ writes = <<2, 1>> => generatedBackend = result[1].data
    /\ writes = <<2>> => generatedBackend = result[2].data

C18_Witness ==
  /\ starts = <<1, 2>> /\ BothDone
  /\ writes = <<2, 1>>
  /\ result[1].data # result[2].data
  /\ generatedBackend = result[1].data
  /\ events[1][Len(events[1])] = "complete"

Position(evs, e) == CHOOSE i \in 1..Len(evs) : evs[i] = e
Has(evs, e) == \E i \in 1..Len(evs) : evs[i] = e

InputError(r) ==
  \/ ~Truthy(prompt[r])
  \/ Blank(prompt[r])
  \/ ~Truthy(apiKey)

\* C20: a POST /api/generate whose prompt is missing or empty after trimming,
\* or whose credential is missing, is answered with a 400 response.
C20_InputErrorIs400 ==
  \A r \in DOMAIN pc :
    (pc[r] = "done" /\ InputError(r)) => events[r] = <<"400">>

\* C21: a read endpoint (GET /preview, GET /docs, GET /api-docs) that is
\* asked while there is no current model answers with a 404 response.
C21_NoModelIs404 ==
  (seen.route # "none" /\ seen.at = Len(writes) /\ generatedBackend = NoData) =>
    seen.status = 404

C30_MemoryBeforeFile ==
  [][LET n == Len(writes') IN
     writes' # writes =>
       IF writes'[n] = 0
         THEN generatedBackend' = LoadBackend(file) /\ file' = file
         ELSE /\ generatedBackend' = result'[writes'[n]].data
              /\ file' \in {file, JSONstringify(generatedBackend')}]_vars

\* the generation completed, the write failed and the server was restarted
C30_Witness ==
  /\ writes = <<1, 0>>
  /\ events[1] = <<"in-progress", "ack", "complete">>
  /\ file # JSONstringify(result[1].data)
  /\ generatedBackend # result[1].data
  /\ generatedBackend = LoadBackend(file)

\* C23: an installed model is never modified in place: GET /preview and
\* GET /docs (which renders the documentation of the model) leave the
\* current model as it is, and whenever the current model changes it is
\* replaced as a whole by the model a generation has just returned.
C23_NeverModifiedInPlace ==
  [][/\ reads' # reads => generatedBackend' = generatedBackend
     /\ generatedBackend' # generatedBackend =>
          /\ Len(writes') = Len(writes) + 1
          /\ generatedBackend' = result'[writes'[Len(writes')]].data]_vars

\* the documentation of a generated model was rendered and the model is
\* still the one the generation returned
C23_Witness ==
  /\ reads = 1 /\ seen.route = "docs" /\ seen.status = 200
  /\ Len(writes) = 1 /\ seen.at = 1
  /\ generatedBackend = result[writes[1]].data
  /\ seen.model = generatedBackend

\* C29: GET /docs asked while a model is present answers with status 200
\* and an HTML page, the documentation or the error page; the call of
\* renderDocumentation never rejects, so the handler never answers 500.
C29_DocsAnswers200 ==
  /\ (seen.route = "docs" /\ seen.model # NoData) =>
       /\ seen.status = 200
       /\ SelfContained(seen.html)
  /\ \A i \in 1..Len(pages) : pages[i].result.kind # "rejected"

\* the rendering of a generated model failed and the error page was sent
C29_Witness ==
  /\ seen.route = "docs" /\ seen.status = 200
  /\ seen.model # NoData /\ seen.at > 0
  /\ Len(pages) = 1 /\ pages[1].result.kind = "error-page"
  /\ seen.html = pages[1].result.html
  /\ Contains(seen.html, Text("<h1>Error Generating Documentation</h1>"))

\* the terminal updates among the events of request r
Terminals(r) ==
  {i \in 1..Len(events[r]) : events[r][i] \in {"complete", "error"}}

\* C24: every endpoint of a model the Assembler returns has a path that is
\* not empty and starts with "/" and a method that is GET, POST, PUT or
\* DELETE in upper case; the specification projected from the model holds
\* the endpoint under the key of its path and its method in lower case.
C24_EndpointsWellFormed ==
  \A r \in DOMAIN pc :
    result[r].success =>
      LET eps == result[r].data.endpoints.items
          projected == generateOpenAPISpec(result[r].data)
      IN
      /\ result[r].data.endpoints.present
      /\ \A i \in 1..Len(eps) :
           /\ eps[i].path.t = "string"
           /\ Len(eps[i].path.s) > 0 /\ eps[i].path.s[1] = "/"
           /\ eps[i].method.t = "string" /\ eps[i].method.s \in Verbs
           /\ projected.kind = "spec"
           /\ NormalizePath(eps[i].path.s) \in DOMAIN projected.paths
           /\ ToLowerCase(eps[i].method.s) \in
                DOMAIN projected.paths[NormalizePath(eps[i].path.s)]

\* the reply had the endpoint "t" with method "post"
C24_Witness ==
  \E r \in DOMAIN pc :
    /\ result[r].success
    /\ Len(result[r].data.endpoints.items) > 0
    /\ Flatten(translated[r].data.wfItems)[1].path = Str(<<"t">>)
    /\ Flatten(translated[r].data.wfItems)[1].method = Str(<<"p", "o", "s", "t">>)
    /\ result[r].data.endpoints.items[1].path = Str(<<"/", "t">>)
    /\ result[r].data.endpoints.items[1].method = Str(POST)
    /\ DOMAIN generateOpenAPISpec(result[r].data).paths[<<"/", "t">>] =
         {<<"p", "o", "s", "t">>}

\* C25: a generation that fails (input error, failure of the service, reply
\* that cannot be decoded, rejected candidate) leaves the current model and
\* the file as they were; a generation that succeeds makes its model the
\* current one.
C25_FailureChangesNothing ==
  [][\A r \in DOMAIN pc :
       (pc[r] # "done" /\ pc'[r] = "done") =>
         IF result'[r].success
           THEN generatedBackend' = result'[r].data
           ELSE /\ generatedBackend' = generatedBackend
                /\ file' = file
                /\ writes' = writes]_vars

\* a candidate with a dangling reference was rejected while an older model
\* was current and persisted
C25_Witness ==
  \E r \in DOMAIN pc :
    /\ pc[r] = "done"
    /\ result[r] = Failure(ErrDangling)
    /\ generatedBackend = LoadedBackend
    /\ file = JSONstringify(LoadedBackend)

SegmentKey(p) ==
  LET stripped ==
        IF StartsWith(p, ApiPrefix) /\ (Len(p) = 4 \/ p[5] = "/")
          THEN Substring(p, 4) ELSE p
  IN IF StartsWith(stripped, Slash) THEN stripped ELSE Slash \o stripped

\* C26: the projector removes a leading "/api" only when it is the whole
\* first segment of the path: an endpoint whose path is "/apiary" keeps
\* that path as its key in the projected specification.
C26_WholeSegmentOnly ==
  spec.kind = "spec" =>
    /\ DOMAIN spec.paths = {SegmentKey(Eps[i].path.s) : i \in 1..Len(Eps)}
    /\ \A i \in 1..Len(Eps) :
         Eps[i].path = Str(Apiary) => Apiary \in DOMAIN spec.paths

\* an endpoint lacks a path, a method, or the status of a response
Fails(e) ==
  \/ e.path.t # "string"
  \/ e.method.t # "string"
  \/ e.responses.present
     /\ \E k \in 1..Len(e.responses.items) :
          e.responses.items[k].status.t # "number"

\* C27: the projection is all or nothing: when any endpoint of the model
\* fails to project, also one that comes after endpoints that projected,
\* the result is the fallback specification with an empty paths mapping;
\* a specification with paths holds every endpoint of the model.
C27_AllOrNothing ==
  /\ (spec.kind # "none" /\ backend.endpoints.present
       /\ \E i \in 1..Len(Eps) : Fails(Eps[i])) =>
        /\ spec = Fallback(backend)
        /\ spec.paths = EmptyMap
  /\ DOMAIN spec.paths # {} =>
        /\ spec.kind = "spec"
        /\ \A i \in 1..Len(Eps) :
             /\ ~Fails(Eps[i])
             /\ ToLowerCase(Eps[i].method.s) \in
                  DOMAIN spec.paths[NormalizePath(Eps[i].path.s)]

\* the first endpoint projects, the second has no path
C27_Witness ==
  /\ spec.kind = "fallback"
  /\ backend.endpoints.present /\ Len(Eps) = 2
  /\ ~Fails(Eps[1]) /\ Eps[1].path = Str(MoviesApi)
  /\ Eps[2].path = Undef /\ Eps[2].method = Str(GET)
  /\ spec.paths = EmptyMap

====
